---- MODULE Spec2Model ----
(***************************************************************************)
(* A model of FCX-Circus: date-hint extraction and time normalization      *)
(* (src/timeutils.py), granule construction (src/campaign_granule.py) and  *)
(* the slant-range projection to a point cloud                             *)
(* (src/converters/point_cloud_converter.py).                              *)
(*                                                                         *)
(* Representation.                                                         *)
(*  - A Python str is a sequence of one-character strings.                 *)
(*  - A raw time value is a fixed-point integer counting thousandths (23.9 *)
(*    is 23900); its cast to whole seconds truncates toward zero.          *)
(*  - A numpy datetime64 is a record [unit, n]: n counts days ("D"),       *)
(*    seconds ("s") or milliseconds ("ms") since 1970-01-01.  None and a   *)
(*    raised ValueError are records of the same shape with their own unit. *)
(***************************************************************************)
EXTENDS Integers, Sequences, FiniteSets, TLC

VARIABLES
    pc,          \* position of the program under the specification at hand
    attrs,       \* attribute mapping handed to get_date_hint
    filename,    \* filename handed to get_date_hint
    date_hint,   \* result of get_date_hint
    time_var,    \* raw time variable handed to normalize_timestamps
    hint,        \* date_hint argument of normalize_timestamps
    normal_time, \* result of normalize_timestamps
    granule,     \* the CampaignGranule object (file_path, ds, normal_time, ...)
    cloud        \* result of PointCloudConverter.convert

vars == <<pc, attrs, filename, date_hint, time_var, hint, normal_time, granule, cloud>>

(***************************************************************************)
(* Strings                                                                 *)
(***************************************************************************)
Digits == {"0", "1", "2", "3", "4", "5", "6", "7", "8", "9"}

IsDigit(c) == c \in Digits

DigitVal(c) ==
    CASE c = "0" -> 0 [] c = "1" -> 1 [] c = "2" -> 2 [] c = "3" -> 3
      [] c = "4" -> 4 [] c = "5" -> 5 [] c = "6" -> 6 [] c = "7" -> 7
      [] c = "8" -> 8 [] c = "9" -> 9

\* int() of a run of decimal digits
RECURSIVE ToInt(_)
ToInt(s) ==
    IF s = <<>> THEN 0
    ELSE 10 * ToInt(SubSeq(s, 1, Len(s) - 1)) + DigitVal(s[Len(s)])

AllDigits(s) == \A i \in 1..Len(s) : IsDigit(s[i])

\* s[a:b] of Python, 0-based and half-open
Slice(s, a, b) == SubSeq(s, a + 1, IF b > Len(s) THEN Len(s) ELSE b)

\* s[a:] of Python
SliceFrom(s, a) == SubSeq(s, a + 1, Len(s))

\* whether t occurs in s at the 1-based position i
MatchAt(s, t, i) ==
    /\ i >= 1
    /\ i + Len(t) - 1 <= Len(s)
    /\ SubSeq(s, i, i + Len(t) - 1) = t

\* the Python test "t in s"
Contains(s, t) == \E i \in 1..(Len(s) + 1) : MatchAt(s, t, i)

Min(S) == CHOOSE x \in S : \A y \in S : x <= y
Max(S) == CHOOSE x \in S : \A y \in S : x >= y

(***************************************************************************)
(* Calendar and numpy.datetime64                                           *)
(***************************************************************************)
None == [unit |-> "None", n |-> 0]
ValueError == [unit |-> "ValueError", n |-> 0]

IsLeap(y) == (y % 4 = 0 /\ y % 100 # 0) \/ y % 400 = 0

DaysInMonth(y, m) ==
    IF m = 2 THEN (IF IsLeap(y) THEN 29 ELSE 28)
    ELSE IF m \in {4, 6, 9, 11} THEN 30 ELSE 31

ValidDate(y, m, d) == m \in 1..12 /\ d \in 1..DaysInMonth(y, m)

\* days from 1970-01-01 to the proleptic Gregorian date y-m-d
DaysFromCivil(y, m, d) ==
    LET yy  == IF m <= 2 THEN y - 1 ELSE y
        era == yy \div 400
        yoe == yy - era * 400
        mp  == IF m > 2 THEN m - 3 ELSE m + 9
        doy == (153 * mp + 2) \div 5 + d - 1
        doe == yoe * 365 + yoe \div 4 - yoe \div 100 + doy
    IN  era * 146097 + doe - 719468

\* whether s reads YYYY-MM-DD: four digits, hyphen, two digits, hyphen, two digits
IsDateText(s) ==
    /\ Len(s) = 10
    /\ AllDigits(SubSeq(s, 1, 4)) /\ s[5] = "-"
    /\ AllDigits(SubSeq(s, 6, 7)) /\ s[8] = "-"
    /\ AllDigits(SubSeq(s, 9, 10))

\* whether s reads hh:mm:ss
IsClockText(s) ==
    /\ Len(s) = 8
    /\ AllDigits(SubSeq(s, 1, 2)) /\ s[3] = ":"
    /\ AllDigits(SubSeq(s, 4, 5)) /\ s[6] = ":"
    /\ AllDigits(SubSeq(s, 7, 8))

ValidClock(s) ==
    /\ ToInt(SubSeq(s, 1, 2)) < 24
    /\ ToInt(SubSeq(s, 4, 5)) < 60
    /\ ToInt(SubSeq(s, 7, 8)) < 60

ClockSeconds(s) ==
    ToInt(SubSeq(s, 1, 2)) * 3600 + ToInt(SubSeq(s, 4, 5)) * 60 + ToInt(SubSeq(s, 7, 8))

DateDays(s) ==
    DaysFromCivil(ToInt(SubSeq(s, 1, 4)), ToInt(SubSeq(s, 6, 7)), ToInt(SubSeq(s, 9, 10)))

DateIsValid(s) ==
    ValidDate(ToInt(SubSeq(s, 1, 4)), ToInt(SubSeq(s, 6, 7)), ToInt(SubSeq(s, 9, 10)))

\* np.datetime64(s) for the ISO 8601 texts the inputs of this model hold: a
\* date (unit D), or a date and a clock time separated by "T" or by a space
\* (unit s).  Any other text, or a date or time out of range, is a ValueError.
NpDatetime64(s) ==
    IF IsDateText(s) THEN
        IF DateIsValid(s) THEN [unit |-> "D", n |-> DateDays(s)] ELSE ValueError
    ELSE IF /\ Len(s) = 19
            /\ IsDateText(SubSeq(s, 1, 10))
            /\ s[11] \in {"T", " "}
            /\ IsClockText(SubSeq(s, 12, 19)) THEN
        IF DateIsValid(SubSeq(s, 1, 10)) /\ ValidClock(SubSeq(s, 12, 19))
        THEN [unit |-> "s",
              n |-> DateDays(SubSeq(s, 1, 10)) * 86400 + ClockSeconds(SubSeq(s, 12, 19))]
        ELSE ValueError
    ELSE ValueError

\* x.astype("datetime64[s]") of one datetime64: days scale up, milliseconds
\* round down to the second
AsSeconds(dt) ==
    CASE dt.unit = "D"  -> [unit |-> "s", n |-> dt.n * 86400]
      [] dt.unit = "ms" -> [unit |-> "s", n |-> dt.n \div 1000]
      [] OTHER          -> dt

(***************************************************************************)
(* get_date_hint                                                           *)
(***************************************************************************)
\* re.sub(r"[^0-9]", "", s)
StripNonDigits(s) == SelectSeq(s, IsDigit)

\* np.datetime64(f"{date_str[:4]}-{date_str[4:6]}-{date_str[6:]}")
DateFromParts(date_str) ==
    NpDatetime64(Slice(date_str, 0, 4) \o <<"-">> \o Slice(date_str, 4, 6)
                 \o <<"-">> \o SliceFrom(date_str, 6))

\* what a function call ends with: a returned value, or a raised exception
Return(v) == [raised |-> FALSE, exc |-> "", ret |-> v]
Raise(e)  == [raised |-> TRUE, exc |-> e, ret |-> None]

\* the 1-based positions where re.search(r"((?:20|19)\d{6})", f) can match
RunStarts(f) ==
    {i \in 1..Len(f) :
        /\ i + 7 <= Len(f)
        /\ SubSeq(f, i, i + 1) \in {<<"2", "0">>, <<"1", "9">>}
        /\ AllDigits(SubSeq(f, i + 2, i + 7))}

\* re.search(r"^((?:20|19)\d{2}-\d{2}-\d{2})$", f)
WholeDateMatch(f) ==
    /\ IsDateText(f)
    /\ SubSeq(f, 1, 2) \in {<<"2", "0">>, <<"1", "9">>}

\* lines 70-84: the filename fallback, then "return None"
FilenameFallback(f) ==
    IF RunStarts(f) # {} THEN
        LET i == Min(RunStarts(f))
            r == DateFromParts(SubSeq(f, i, i + 7))
        IN  IF r # ValueError THEN Return(r) ELSE Return(None)
    ELSE IF WholeDateMatch(f) THEN
        LET r == DateFromParts(f)
        IN  IF r # ValueError THEN Return(r) ELSE Return(None)
    ELSE Return(None)

\* A date attribute that is unusable ends the search instead of falling
\* through to the filename.
get_date_hint_nofallback(a, f) ==
    IF "date" \in DOMAIN a THEN
        LET date_str == StripNonDigits(a["date"])
            r == DateFromParts(date_str)
        IN  IF Len(date_str) = 8 /\ r # ValueError THEN Return(r) ELSE Return(None)
    ELSE FilenameFallback(f)

\* lines 47-84.  On line 62 date_str holds digits only; were the pattern to
\* match it, line 63 would unpack the empty m.groups() into three names
\* outside any try block and raise ValueError.
get_date_hint(a, f) ==
    IF "date" \in DOMAIN a THEN
        LET date_str == StripNonDigits(a["date"])
        IN  IF Len(date_str) = 8 THEN
                LET r == DateFromParts(date_str)
                IN  IF r # ValueError THEN Return(r) ELSE FilenameFallback(f)
            ELSE IF IsDateText(date_str) THEN Raise("ValueError: not enough values to unpack")
            ELSE FilenameFallback(f)
    ELSE FilenameFallback(f)

(***************************************************************************)
(* Time classification and normalization                                   *)
(***************************************************************************)
UpperAlpha == <<"A", "B", "C", "D", "E", "F", "G", "H", "I", "J", "K", "L", "M",
                "N", "O", "P", "Q", "R", "S", "T", "U", "V", "W", "X", "Y", "Z">>
LowerAlpha == <<"a", "b", "c", "d", "e", "f", "g", "h", "i", "j", "k", "l", "m",
                "n", "o", "p", "q", "r", "s", "t", "u", "v", "w", "x", "y", "z">>

\* str.lower()
Lower(s) ==
    [i \in 1..Len(s) |->
        IF \E k \in 1..26 : UpperAlpha[k] = s[i]
        THEN LowerAlpha[CHOOSE k \in 1..26 : UpperAlpha[k] = s[i]]
        ELSE s[i]]

Spaces == {" ", "\t"}

\* str.strip()
RECURSIVE Strip(_)
Strip(s) ==
    IF s = <<>> THEN s
    ELSE IF s[1] \in Spaces THEN Strip(Tail(s))
    ELSE IF s[Len(s)] \in Spaces THEN Strip(SubSeq(s, 1, Len(s) - 1))
    ELSE s

\* the last position of the longest run of characters of C that starts at i
\* (i - 1 when s[i] is not in C)
RunEnd(s, i, C) == Max({j \in (i - 1)..Len(s) : \A k \in i..j : s[k] \in C})

TSeconds == <<"s", "e", "c", "o", "n", "d", "s">>
THours == <<"h", "o", "u", "r", "s">>
TSince == <<"s", "i", "n", "c", "e">>

\* the character class [0-9T:\- ] of line 118
RefClass == Digits \cup {"T", ":", "-", " "}

\* re.search(r"(seconds|hours)\s+since\s+([0-9T:\- ]+)", u) with the unit
\* word w at position i: the match's second group, or <<>> when there is no
\* match there.  (Texts that end in two or more blanks right after "since",
\* where the pattern would backtrack to a blank-only group, are not among the
\* inputs.)
SinceGroupAt(u, w, i) ==
    IF ~MatchAt(u, w, i) THEN <<>>
    ELSE LET a  == i + Len(w)
             e1 == RunEnd(u, a, Spaces)
         IN  IF e1 < a \/ ~MatchAt(u, TSince, e1 + 1) THEN <<>>
             ELSE LET b  == e1 + 1 + Len(TSince)
                      e2 == RunEnd(u, b, Spaces)
                  IN  IF e2 < b THEN <<>>
                      ELSE SubSeq(u, e2 + 1, RunEnd(u, e2 + 1, RefClass))

SinceStarts(u) ==
    {i \in 1..Len(u) : \E w \in {TSeconds, THours} : SinceGroupAt(u, w, i) # <<>>}

\* the leftmost match of line 118: [unit_str, base_str], or no match
SinceMatch(u) ==
    IF SinceStarts(u) = {} THEN [found |-> FALSE, unit_str |-> <<>>, base_str |-> <<>>]
    ELSE LET i == Min(SinceStarts(u))
             w == IF SinceGroupAt(u, TSeconds, i) # <<>> THEN TSeconds ELSE THours
         IN  [found |-> TRUE, unit_str |-> w, base_str |-> SinceGroupAt(u, w, i)]

\* a / b truncated toward zero (b > 0): the cast of a float to a whole number
TruncDiv(a, b) == IF a >= 0 THEN a \div b ELSE -((-a) \div b)

\* Hours read as minutes.
HoursToSeconds_x60(v) == TruncDiv(v * 3, 50)

\* (values * 3600).astype("timedelta64[s]"), one element: v thousandths of an
\* hour are v * 3600 / 1000 = v * 18 / 5 seconds, truncated
HoursToSeconds(v) == TruncDiv(v * 18, 5)

\* values.astype("timedelta64[s]"), one element
SecondsToSeconds(v) == TruncDiv(v, 1000)

IsDatetimeDtype(t) == t \in {"datetime64[s]", "datetime64[ms]"}

\* numpy's dtype.kind
DtypeKind(t) ==
    CASE IsDatetimeDtype(t) -> "M"
      [] t = "float64" -> "f"
      [] t = "int64" -> "i"
      [] OTHER -> "U"

\* datetime64 + timedelta64[s], element by element
AddSeconds(base, deltas) ==
    [i \in 1..Len(deltas) |-> [unit |-> "s", n |-> AsSeconds(base).n + deltas[i]]]

\* lines 11-14
has_wraparound(values) == \E i \in 1..(Len(values) - 1) : values[i + 1] - values[i] < 0

\* time_var.attrs.get("units", "")
UnitsOf(tv) == IF "units" \in DOMAIN tv.attrs THEN tv.attrs["units"] ELSE <<>>

\* lines 138-150: the numeric heuristics; np.max of an empty array raises
NumericCase(tv, result) ==
    IF DtypeKind(tv.dtype) \in {"f", "i"} /\ tv.ndim = 1 THEN
        IF tv.values = <<>> THEN Raise("ValueError: zero-size array")
        ELSE LET mx == Max({tv.values[i] : i \in 1..Len(tv.values)})
                 w  == has_wraparound(tv.values)
             IN  Return([result EXCEPT
                     !.wrapped = w,
                     !.type = IF mx < 25 * 1000 THEN "hours-since-midnight"
                              ELSE IF mx < 86400 * 1000 THEN "seconds-since-midnight"
                              ELSE "numeric-time"])
    ELSE Return(result)

\* lines 86-150
detect_time_var_type(tv) ==
    LET result == [type |-> "unknown", base_time |-> None,
                   time_array |-> tv.values, wrapped |-> FALSE]
        units  == Lower(UnitsOf(tv))
        match  == SinceMatch(units)
    IN  IF IsDatetimeDtype(tv.dtype) THEN Return([result EXCEPT !.type = "datetime64"])
        ELSE IF Contains(units, TSince) /\ match.found THEN
            LET base_time == NpDatetime64(Strip(match.base_str))
            IN  IF base_time = ValueError THEN NumericCase(tv, result)
                ELSE IF DtypeKind(tv.dtype) \notin {"f", "i"}
                     \* the arithmetic on a text array raises after base_time is stored
                     THEN NumericCase(tv, [result EXCEPT !.base_time = base_time])
                ELSE LET delta ==
                             IF Contains(match.unit_str, <<"h", "o", "u", "r">>)
                             THEN [i \in 1..Len(tv.values) |-> HoursToSeconds(tv.values[i])]
                             ELSE [i \in 1..Len(tv.values) |-> SecondsToSeconds(tv.values[i])]
                     IN  Return([result EXCEPT
                             !.base_time = base_time,
                             !.time_array = AddSeconds(base_time, delta),
                             !.type = IF match.unit_str = THours THEN "hours-since"
                                      ELSE "seconds-since"])
        ELSE NumericCase(tv, result)

\* lines 159-163: the result array with the input's attributes and the marker
wrap(tv, result) ==
    [values |-> result,
     ndim   |-> tv.ndim,
     attrs  |-> [k \in DOMAIN tv.attrs \cup {"normalized"} |->
                    IF k = "normalized" THEN TRUE ELSE tv.attrs[k]]]

\* lines 16-45 (no caller in the repository)
resolve_time_hours(hr, base_date) ==
    LET wrap_points == {i \in 1..(Len(hr) - 1) : hr[i + 1] - hr[i] < 0}
        day_shifts  == [i \in 1..Len(hr) |-> Cardinality({w \in wrap_points : w + 1 <= i})]
        shifted     == [i \in 1..Len(hr) |-> hr[i] + day_shifts[i] * 24 * 1000]
    IN  AddSeconds(base_date, [i \in 1..Len(hr) |-> HoursToSeconds(shifted[i])])

\* the test "hour" in info["type"] of lines 170 and 177
HourInType(type) == type \in {"hours-since", "hours-since-midnight"}

\* The date hint is demanded before the time format is looked at.
normalize_timestamps_hint_first(tv, dh) ==
    LET d == detect_time_var_type(tv)
        values == tv.values
        delta == IF HourInType(d.ret.type)
                 THEN [i \in 1..Len(values) |-> HoursToSeconds(values[i])]
                 ELSE [i \in 1..Len(values) |-> SecondsToSeconds(values[i])]
    IN  IF d.raised THEN d
        ELSE IF dh = None THEN Raise("ValueError: Missing date_hint for relative time array")
        ELSE IF IsDatetimeDtype(tv.dtype) THEN
            Return(wrap(tv, [i \in 1..Len(values) |->
                                AsSeconds([unit |-> IF tv.dtype = "datetime64[ms]"
                                                    THEN "ms" ELSE "s",
                                           n |-> values[i]])]))
        ELSE IF d.ret.type \in {"hours-since", "seconds-since"} /\ d.ret.base_time # None THEN
            Return(wrap(tv, AddSeconds(d.ret.base_time, delta)))
        ELSE IF d.ret.type \in {"hours-since-midnight", "seconds-since-midnight"} THEN
            Return(wrap(tv, AddSeconds(dh, delta)))
        ELSE Raise("ValueError: Cannot normalize time array")

\* lines 152-180
normalize_timestamps(tv, dh) ==
    LET d == detect_time_var_type(tv)
        info == d.ret
        values == tv.values
        delta == IF HourInType(info.type)
                 THEN [i \in 1..Len(values) |-> HoursToSeconds(values[i])]
                 ELSE [i \in 1..Len(values) |-> SecondsToSeconds(values[i])]
    IN  IF d.raised THEN d
        ELSE IF IsDatetimeDtype(tv.dtype) THEN
            Return(wrap(tv, [i \in 1..Len(values) |->
                                AsSeconds([unit |-> IF tv.dtype = "datetime64[ms]"
                                                    THEN "ms" ELSE "s",
                                           n |-> values[i]])]))
        ELSE IF info.type \in {"hours-since", "seconds-since"} /\ info.base_time # None THEN
            Return(wrap(tv, AddSeconds(info.base_time, delta)))
        ELSE IF info.type \in {"hours-since-midnight", "seconds-since-midnight"} THEN
            IF dh = None THEN Raise("ValueError: Missing date_hint for relative time array")
            ELSE Return(wrap(tv, AddSeconds(dh, delta)))
        ELSE Raise("ValueError: Cannot normalize time array")

(***************************************************************************)
(* Inputs of the date-hint specification                                   *)
(***************************************************************************)
NoAttrs == [k \in {} |-> <<>>]
WithDate(s) == [k \in {"date"} |-> s]

T20170517 == <<"2", "0", "1", "7", "0", "5", "1", "7">>
T19991231 == <<"1", "9", "9", "9", "1", "2", "3", "1">>
T20171345 == <<"2", "0", "1", "7", "1", "3", "4", "5">>
T20160229 == <<"2", "0", "1", "6", "0", "2", "2", "9">>
T2017051  == <<"2", "0", "1", "7", "0", "5", "1">>
TIso20170517 == <<"2", "0", "1", "7", "-", "0", "5", "-", "1", "7">>
TIso20171301 == <<"2", "0", "1", "7", "-", "1", "3", "-", "0", "1">>
TIso18991231 == <<"1", "8", "9", "9", "-", "1", "2", "-", "3", "1">>
TFlight == <<"f", "l", "i", "g", "h", "t">>
TMay17 == <<"M", "a", "y", " ", "1", "7">>
TNoon == <<"1", "2", ":", "0", "0", ":", "0", "0">>

DateAttrTexts ==
    {T20170517, TIso20170517, T20160229, TIso20171301, TMay17, T2017051,
     TIso20170517 \o <<"T">> \o TNoon, <<>>}

AttrInputs == {NoAttrs} \cup {WithDate(s) : s \in DateAttrTexts}

FilenamePrefixes == {<<>>, <<"x", "_">>, <<"1">>}
FilenameCores ==
    {T20170517, TIso20170517, T19991231, T20171345, T2017051, TFlight,
     TIso20171301, TIso18991231}
FilenameSuffixes == {<<>>, <<".", "n", "c">>, <<"_">> \o T20160229}

FilenameInputs ==
    {p \o c \o x : p \in FilenamePrefixes, c \in FilenameCores, x \in FilenameSuffixes}

(***************************************************************************)
(* Specification of get_date_hint: Init draws the arguments, the action    *)
(* applies the function.                                                   *)
(***************************************************************************)
NoTimeVar == [dtype |-> "none", ndim |-> 0, values |-> <<>>, attrs |-> [k \in {} |-> <<>>]]
NoGranule == [state |-> "none"]
NoCloud == [state |-> "none"]

InitDate ==
    /\ pc = "call"
    /\ attrs \in AttrInputs
    /\ filename \in FilenameInputs
    /\ date_hint = Return(None)
    /\ time_var = NoTimeVar
    /\ hint = None
    /\ normal_time = Return(None)
    /\ granule = NoGranule
    /\ cloud = NoCloud

GetDateHint ==
    /\ pc = "call"
    /\ date_hint' = get_date_hint(attrs, filename)
    /\ pc' = "done"
    /\ UNCHANGED <<attrs, filename, time_var, hint, normal_time, granule, cloud>>

NextDate == GetDateHint

SpecDate == InitDate /\ [][NextDate]_vars

(***************************************************************************)
(* Specification of normalize_timestamps: Init draws the raw time variable *)
(* and the date hint, the action applies the function.                     *)
(***************************************************************************)
MaxLen == 3

\* sequences over S of length 0..n
SeqsUpTo(S, n) == UNION {[1..k -> S] : k \in 0..n}

\* floats, in thousandths: 0.001, 0.1, 0.5, 23.9, 30000.0, 90000.0
FloatValues == {1, 100, 500, 23900, 30000 * 1000, 90000 * 1000}
\* whole numbers: 0, 1, 30000
IntValues == {0, 1000, 30000 * 1000}
\* datetime64 counts: 1970-01-02T00:00:00 and 1970-01-02T00:00:01.5 in milliseconds
MsValues == {86400 * 1000, 86400 * 1000 + 1500}

TSp == <<" ">>
ReferenceTexts ==
    {TIso20170517, TIso20170517 \o TSp \o TNoon, TIso20170517 \o <<"T">> \o TNoon}

\* "<hours|seconds> since <timestamp>" with a well-formed timestamp
WellFormedSince(w, ts) == w \o TSp \o TSince \o TSp \o ts

UnitsTexts ==
    {WellFormedSince(w, ts) : w \in {THours, TSeconds}, ts \in ReferenceTexts}
    \cup {<<"H">> \o Tail(THours) \o TSp \o TSince \o TSp \o TIso20170517 \o TSp \o TNoon,
          TSeconds \o TSp \o TSince \o TSp \o TIso20171301,
          <<"d", "a", "y", "s">> \o TSp \o TSince \o TSp \o TIso20170517,
          THours}

WithUnits(u) == [k \in {"units"} |-> u]

TimeAttrInputs == {NoAttrs} \cup {WithUnits(u) : u \in UnitsTexts}

TimeVar(t, nd, vs, a) == [dtype |-> t, ndim |-> nd, values |-> vs, attrs |-> a]

TimeVarInputs ==
    {TimeVar("float64", 1, vs, a) : vs \in SeqsUpTo(FloatValues, MaxLen), a \in TimeAttrInputs}
    \cup {TimeVar("int64", 1, vs, a) : vs \in SeqsUpTo(IntValues, MaxLen), a \in TimeAttrInputs}
    \cup {TimeVar(t, 1, vs, a) : t \in {"datetime64[s]", "datetime64[ms]"},
                                 vs \in SeqsUpTo(MsValues, MaxLen), a \in TimeAttrInputs}
    \cup {TimeVar("str", 1, vs, a) : vs \in SeqsUpTo({100}, MaxLen), a \in TimeAttrInputs}
    \cup {TimeVar("float64", 2, vs, a) : vs \in {<<100, 500>>, <<500, 100>>},
                                          a \in TimeAttrInputs}

HintInputs == {None, [unit |-> "D", n |-> 17303]}

InitTime ==
    /\ pc = "call"
    /\ attrs = NoAttrs
    /\ filename = <<>>
    /\ date_hint = Return(None)
    /\ time_var \in TimeVarInputs
    /\ hint \in HintInputs
    /\ normal_time = Return(None)
    /\ granule = NoGranule
    /\ cloud = NoCloud

NormalizeTimestamps ==
    /\ pc = "call"
    /\ normal_time' = normalize_timestamps(time_var, hint)
    /\ pc' = "done"
    /\ UNCHANGED <<attrs, filename, date_hint, time_var, hint, granule, cloud>>

NextTime == NormalizeTimestamps

SpecTime == InitTime /\ [][NextTime]_vars

(***************************************************************************)
(* CampaignGranule: construction and close                                 *)
(***************************************************************************)
\* os.path.basename(path): what follows the last "/"
Basename(path) ==
    LET slashes == {i \in 1..Len(path) : path[i] = "/"}
    IN  IF slashes = {} THEN path ELSE SubSeq(path, Max(slashes) + 1, Len(path))

NoDataset == [open |-> FALSE, attrs |-> NoAttrs, time |-> NoTimeVar]

\* lines 29-34: the dataset a file holds, opened
OpenDataset(file) == [open |-> TRUE, attrs |-> file.attrs, time |-> file.time]

\* one caller-supplied preprocessor applied to a dataset (line 39):
\* "stamp_date" returns the dataset with a date attribute added, "fail" raises
ApplyPreprocessor(name, ds) ==
    IF name = "fail" THEN Raise("RuntimeError: preprocessor failed")
    ELSE Return([ds EXCEPT !.attrs =
                    [k \in DOMAIN ds.attrs \cup {"date"} |->
                        IF k = "date" THEN T20160229 ELSE ds.attrs[k]]])

\* lines 36-40: the preprocessors applied in order, the last result kept
RECURSIVE ApplyPreprocessors(_, _)
ApplyPreprocessors(names, ds) ==
    IF names = <<>> THEN Return(ds)
    ELSE LET r == ApplyPreprocessor(Head(names), ds)
         IN  IF r.raised THEN r ELSE ApplyPreprocessors(Tail(names), r.ret)

\* lines 49-55: the filename the date hint is looked for in
HintFilename(ds_attrs, file_path) ==
    IF "filename" \in DOMAIN ds_attrs THEN Basename(ds_attrs["filename"])
    ELSE Basename(file_path)

TDataDir == <<"/", "d", "a", "t", "a", "/">>
TNc == <<".", "n", "c">>

GranulePaths == {TDataDir \o T20170517 \o TNc, TDataDir \o TFlight \o TNc}

GranuleAttrs ==
    {NoAttrs,
     WithDate(TIso20170517),
     [k \in {"filename"} |-> <<"r", "a", "w", "/">> \o T19991231 \o TNc],
     [k \in {"filename"} |-> TFlight \o TNc]}

GranuleTimes ==
    {TimeVar("float64", 1, vs, a) :
        vs \in SeqsUpTo({100, 500, 23900, 90000 * 1000}, MaxLen),
        a \in {NoAttrs,
               WithUnits(WellFormedSince(THours, TIso20170517)),
               WithUnits(WellFormedSince(TSeconds, TIso20170517 \o TSp \o TNoon))}}
    \cup {TimeVar("datetime64[ms]", 1, vs, NoAttrs) : vs \in SeqsUpTo(MsValues, MaxLen)}
    \cup {TimeVar("str", 1, <<100>>, NoAttrs)}

GranuleFiles ==
    [file_path : GranulePaths, exists : {TRUE}, attrs : GranuleAttrs, time : GranuleTimes]
    \cup [file_path : GranulePaths, exists : {FALSE}, attrs : {NoAttrs}, time : {NoTimeVar}]

PreprocessorLists == {<<>>, <<"stamp_date">>, <<"fail">>, <<"stamp_date", "fail">>}

InitGranule ==
    /\ pc = "new"
    /\ attrs = NoAttrs
    /\ filename = <<>>
    /\ date_hint = Return(None)
    /\ time_var = NoTimeVar
    /\ hint = None
    /\ normal_time = Return(None)
    /\ granule = NoGranule
    /\ cloud = NoCloud

\* what the constructor leaves when it raises: no object is returned, the
\* dataset it opened (if any) stays as it was
FailedGranule(file, ds, at) ==
    [state |-> "failed", failed_at |-> at, file_path |-> file.file_path,
     ds |-> ds, normal_time |-> None]

\* lines 27-60, the whole constructor
CampaignGranuleInit ==
    /\ pc = "new"
    /\ \E file \in GranuleFiles, preprocessors \in PreprocessorLists :
        IF ~file.exists THEN
            /\ granule' = FailedGranule(file, NoDataset, "load")
            /\ pc' = "failed"
            /\ UNCHANGED <<attrs, filename, date_hint, time_var, hint, normal_time>>
        ELSE LET pre == ApplyPreprocessors(preprocessors, OpenDataset(file))
             IN  IF pre.raised THEN
                     /\ granule' = FailedGranule(file, OpenDataset(file), "preprocess")
                     /\ pc' = "failed"
                     /\ UNCHANGED <<attrs, filename, date_hint, time_var, hint, normal_time>>
                 ELSE
                     /\ attrs' = pre.ret.attrs
                     /\ filename' = HintFilename(pre.ret.attrs, file.file_path)
                     /\ date_hint' = get_date_hint(attrs', filename')
                     /\ time_var' = pre.ret.time
                     /\ hint' = date_hint'.ret
                     /\ normal_time' = normalize_timestamps(time_var', hint')
                     /\ IF normal_time'.raised
                        THEN /\ granule' = FailedGranule(file, pre.ret, "normalize")
                             /\ pc' = "failed"
                        ELSE /\ granule' = [state |-> "constructed", failed_at |-> "",
                                            file_path |-> file.file_path, ds |-> pre.ret,
                                            normal_time |-> normal_time'.ret]
                             /\ pc' = "constructed"
    /\ UNCHANGED cloud

\* lines 74-75
Close ==
    /\ pc = "constructed"
    /\ granule' = [granule EXCEPT !.ds.open = FALSE, !.state = "closed"]
    /\ pc' = "closed"
    /\ UNCHANGED <<attrs, filename, date_hint, time_var, hint, normal_time, cloud>>

NextGranule == CampaignGranuleInit \/ Close

SpecGranule == InitGranule /\ [][NextGranule]_vars

(***************************************************************************)
(* PointCloudConverter.convert                                             *)
(*                                                                         *)
(* Numbers here are exact integers: latitude and longitude in thousandths  *)
(* of a degree, altitude and range in metres, angles in degrees.  The      *)
(* inputs keep to attitudes that are multiples of 90 degrees, latitudes 0  *)
(* and 60 and ranges that are multiples of 111 m, where the trigonometry   *)
(* and the division by 111000 are exact.                                   *)
(***************************************************************************)
\* angle * np.pi / 180, counted in quarter turns (pi/2)
ToRadians(deg) == deg \div 90

\* np.sin and np.cos at a whole number of quarter turns
Sin(q) == <<0, 1, 0, -1>>[(q % 4) + 1]
Cos(q) == <<1, 0, -1, 0>>[(q % 4) + 1]

\* lines 11-16, one element
down_vector(roll, pitch, head) ==
    [x |-> Sin(roll) * Cos(head) + Cos(roll) * Sin(pitch) * Sin(head),
     y |-> -Sin(roll) * Sin(head) + Cos(roll) * Sin(pitch) * Cos(head),
     z |-> -Cos(roll) * Cos(pitch)]

\* 1 / np.cos(lat * np.pi / 180) for a latitude in thousandths of a degree
SecLat(lat) == IF lat = 60 * 1000 THEN 2 ELSE 1

\* np.repeat(a, n)
Repeat(a, n) == [k \in 1..(Len(a) * n) |-> a[((k - 1) \div n) + 1]]

\* np.tile(a, n)
Tile(a, n) == [k \in 1..(Len(a) * n) |-> a[((k - 1) % Len(a)) + 1]]

\* ref.flatten(): row-major, the second index varies fastest
Flatten(m) ==
    [k \in 1..(Len(m) * Len(m[1])) |-> m[((k - 1) \div Len(m[1])) + 1][((k - 1) % Len(m[1])) + 1]]

\* numpy broadcasting of two 1-D arrays of lengths m and n
Broadcastable(m, n) == m = n \/ m = 1 \/ n = 1
BroadcastLen(m, n) == IF m >= n THEN m ELSE n
At(a, k) == IF Len(a) = 1 THEN a[1] ELSE a[k]

\* the stable ascending order of t: index i comes before j when its value is
\* smaller, or equal with i < j
StableOrder(t) ==
    [k \in 1..Len(t) |->
        CHOOSE i \in 1..Len(t) :
            Cardinality({j \in 1..Len(t) : t[j] < t[i] \/ (t[j] = t[i] /\ j < i)}) = k - 1]

\* p with the entries at positions a and b exchanged
Exchange(p, a, b) ==
    [k \in 1..Len(p) |-> IF k = a THEN p[b] ELSE IF k = b THEN p[a] ELSE p[k]]

\* No sort at all.
ArgsortOutcomes_unsorted(t) == {[k \in 1..Len(t) |-> k]}

\* np.argsort(t) with the default kind, which numpy documents as not stable:
\* the result sorts t, and equal values come in an order the build chooses.
\* The outcomes taken here are the stable order and every order that differs
\* from it by exchanging two entries of equal value.
ArgsortOutcomes(t) ==
    LET p == StableOrder(t)
        ties(a) == {b \in 1..Len(t) : t[p[b]] = t[p[a]]}
    IN  {p} \cup UNION {{Exchange(p, a, b) : b \in ties(a)} : a \in 1..Len(t)}

\* a[idx] with an integer index array: IndexError when an index is out of bounds
CanTake(a, idx) == \A k \in 1..Len(idx) : idx[k] <= Len(a)
Take(a, idx) == [k \in 1..Len(idx) |-> a[idx[k]]]

\* a[mask] with a boolean mask of a's length
Compress(a, mask) ==
    LET kept == {k \in 1..Len(a) : mask[k]}
    IN  [j \in 1..Cardinality(kept) |->
            a[CHOOSE k \in kept : Cardinality({i \in kept : i < k}) = j - 1]]

IsFinite(r) == r.kind = "num"

\* Altitude zero is kept.
KeepMask_nonnegative(ref, alt) ==
    [k \in 1..Len(ref) |-> IsFinite(ref[k]) /\ alt[k] >= 0]

\* line 75: np.logical_and(np.isfinite(ref), alt > 0)
KeepMask(ref, alt) ==
    [k \in 1..Len(ref) |-> IsFinite(ref[k]) /\ alt[k] > 0]

\* line 36: the normalized time as whole seconds since 1970, then line 49
FlatTime(g) ==
    Repeat([i \in 1..Len(g.normal_time.values) |-> AsSeconds(g.normal_time.values[i]).n],
           Len(g.ds.ref[1]))

\* lines 31-93, with sort_idx the outcome of np.argsort on line 68; ds.alt is
\* the array ds.get("height", ds.get("alt")) of line 41.  The field src of the
\* result is not in the code: it records, for each output point, the
\* flattened input index it came from.
convert(g, sort_idx) ==
    LET ds == g.ds
        num_col == Len(ds.ref)
        num_row == Len(ds.ref[1])
        time0 == FlatTime(g)
        lon0 == Repeat(ds.lon, num_row)
        lat0 == Repeat(ds.lat, num_row)
        alt0 == Repeat(ds.alt, num_row)
        roll == Repeat([i \in 1..Len(ds.roll) |-> ToRadians(ds.roll[i])], num_row)
        pitch == Repeat([i \in 1..Len(ds.pitch) |-> ToRadians(ds.pitch[i])], num_row)
        head == Repeat([i \in 1..Len(ds.head) |-> ToRadians(ds.head[i])], num_row)
        rad_range == Tile(ds.range, num_col)
        ref0 == Flatten(ds.ref)
        n == BroadcastLen(Len(lat0), Len(rad_range))
        dv == [k \in 1..Len(roll) |-> down_vector(roll[k], pitch[k], head[k])]
        x == [k \in 1..n |-> (At(dv, k).x * At(rad_range, k) * SecLat(At(lat0, k))) \div 111]
        y == [k \in 1..n |-> (At(dv, k).y * At(rad_range, k)) \div 111]
        z == [k \in 1..n |-> At(dv, k).z * At(rad_range, k)]
        lon1 == [k \in 1..n |-> -x[k] + At(lon0, k)]
        lat1 == [k \in 1..n |-> -y[k] + At(lat0, k)]
        alt1 == [k \in 1..n |-> z[k] + At(alt0, k)]
        lon2 == Take(lon1, sort_idx)
        lat2 == Take(lat1, sort_idx)
        alt2 == Take(alt1, sort_idx)
        ref2 == Take(ref0, sort_idx)
        time2 == Take(time0, sort_idx)
        mask == KeepMask(ref2, alt2)
    IN  IF ~Broadcastable(Len(lat0), Len(rad_range))
        THEN Raise("ValueError: operands could not be broadcast together")
        ELSE IF ~CanTake(lon1, sort_idx) \/ ~CanTake(ref0, sort_idx)
        THEN Raise("IndexError: index out of bounds")
        ELSE Return([lat  |-> Compress(lat2, mask),
                     lon  |-> Compress(lon2, mask),
                     alt  |-> Compress(alt2, mask),
                     ref  |-> Compress(ref2, mask),
                     time |-> [j \in 1..Len(Compress(time2, mask)) |->
                                  [unit |-> "s", n |-> Compress(time2, mask)[j]]],
                     src  |-> Compress(sort_idx, mask),
                     attrs |-> [converted_by |-> "PointCloudConverter",
                                projection |-> "slant-range"]])

(***************************************************************************)
(* Specification of convert: Init draws the granule, the action converts   *)
(* it, with np.argsort's choice among equal times left open.               *)
(***************************************************************************)
MaxCol == 2
MaxRow == 2

\* level flight at 444 m; rolled 90 degrees at latitude 60; pitched 90 degrees
AttitudeSamples ==
    <<[lat |-> 0, alt |-> 444, roll |-> 0, pitch |-> 0, head |-> 0],
      [lat |-> 60 * 1000, alt |-> 100, roll |-> 90, pitch |-> 0, head |-> 0],
      [lat |-> 0, alt |-> 100, roll |-> 0, pitch |-> 90, head |-> 0]>>

SampleAt(start, i) == AttitudeSamples[((start + i - 1) % 3) + 1]

TimePatterns == {"ascending", "descending", "constant", "zigzag"}

TimeAt(tp, i) ==
    CASE tp = "ascending"  -> 100 + i
      [] tp = "descending" -> 100 - i
      [] tp = "constant"   -> 100
      [] OTHER             -> IF i % 2 = 1 THEN 102 ELSE 101

RangePatterns == {"near", "far"}

RangeAt(rp, r) == IF rp = "near" THEN 111 * r ELSE 111 * (6 - r)

\* reflectivity of cell (c, r): a number of its own, or, for the one cell
\* numbered bad, NaN (odd cells) or infinity (even cells)
RefAt(c, r, num_row, bad) ==
    LET k == (c - 1) * num_row + r
    IN  IF k # bad THEN [kind |-> "num", v |-> 10 * c + r]
        ELSE IF k % 2 = 1 THEN [kind |-> "nan", v |-> 0]
        ELSE [kind |-> "inf", v |-> 0]

\* the lengths <<time, per-sample vectors, range>> given a grid of c by r: all
\* matching, or one of the three differing
LengthChoices(c, r) ==
    {<<c, c, r>>}
    \cup {<<l, c, r>> : l \in (1..MaxCol) \ {c}}
    \cup {<<c, l, r>> : l \in (1..MaxCol) \ {c}}
    \cup {<<c, c, l>> : l \in (1..MaxRow) \ {r}}

ConvertInput(c, r, lens, tp, start, rp, bad) ==
    [state |-> "constructed",
     normal_time |-> [values |-> [i \in 1..lens[1] |-> [unit |-> "s", n |-> TimeAt(tp, i)]]],
     ds |-> [ref   |-> [i \in 1..c |-> [j \in 1..r |-> RefAt(i, j, r, bad)]],
             lat   |-> [i \in 1..lens[2] |-> SampleAt(start, i).lat],
             lon   |-> [i \in 1..lens[2] |-> 1000 * i],
             alt   |-> [i \in 1..lens[2] |-> SampleAt(start, i).alt],
             roll  |-> [i \in 1..lens[2] |-> SampleAt(start, i).roll],
             pitch |-> [i \in 1..lens[2] |-> SampleAt(start, i).pitch],
             head  |-> [i \in 1..lens[2] |-> SampleAt(start, i).head],
             range |-> [j \in 1..lens[3] |-> RangeAt(rp, j)]]]

ConvertInputs ==
    UNION {UNION {{ConvertInput(c, r, lens, tp, start, rp, bad) :
                      lens \in LengthChoices(c, r), tp \in TimePatterns,
                      start \in 0..2, rp \in RangePatterns, bad \in 0..(c * r)} :
                  r \in 1..MaxRow} : c \in 1..MaxCol}

InitConvert ==
    /\ pc = "call"
    /\ attrs = NoAttrs
    /\ filename = <<>>
    /\ date_hint = Return(None)
    /\ time_var = NoTimeVar
    /\ hint = None
    /\ normal_time = Return(None)
    /\ granule \in ConvertInputs
    /\ cloud = NoCloud

Convert ==
    /\ pc = "call"
    /\ \E sort_idx \in ArgsortOutcomes(FlatTime(granule)) :
           cloud' = convert(granule, sort_idx)
    /\ pc' = "done"
    /\ UNCHANGED <<attrs, filename, date_hint, time_var, hint, normal_time, granule>>

NextConvert == Convert

SpecConvert == InitConvert /\ [][NextConvert]_vars

(***************************************************************************)
(* Claims about get_date_hint (specification SpecDate)                     *)
(***************************************************************************)
\* the calendar date eight digits YYYYMMDD name, None when there is no such date
DateOfDigits(d) ==
    LET y == ToInt(SubSeq(d, 1, 4))
        m == ToInt(SubSeq(d, 5, 6))
        dd == ToInt(SubSeq(d, 7, 8))
    IN  IF ValidDate(y, m, dd) THEN [unit |-> "D", n |-> DaysFromCivil(y, m, dd)]
        ELSE None

\* the attributes give a usable date: a date attribute whose digits are
\* eight and name a calendar date
AttrUsable(a) ==
    /\ "date" \in DOMAIN a
    /\ Len(StripNonDigits(a["date"])) = 8
    /\ DateOfDigits(StripNonDigits(a["date"])) # None

\* C5: when the attributes give no usable date, get_date_hint returns the
\* date the filename encodes, in both shapes: the first 8-digit run beginning
\* with 19 or 20 (read as YYYYMMDD), and a filename that is as a whole a
\* YYYY-MM-DD token; it returns None only when neither shape is present or
\* the digits are no calendar date.
C5_FilenameDateBothShapes ==
    (pc = "done" /\ ~AttrUsable(attrs)) =>
        date_hint =
            Return(IF RunStarts(filename) # {}
                   THEN DateOfDigits(SubSeq(filename, Min(RunStarts(filename)),
                                            Min(RunStarts(filename)) + 7))
                   ELSE IF WholeDateMatch(filename)
                   THEN DateOfDigits(StripNonDigits(filename))
                   ELSE None)

\* C6: get_date_hint never raises; a usable date attribute wins over the
\* filename; an unusable one (not 8 digits, or no calendar date) is passed
\* over and the result is what the filename alone gives; with no match at
\* all the result is None.
C6_FirstMatchWinsNeverRaises ==
    pc = "done" =>
        /\ ~date_hint.raised
        /\ AttrUsable(attrs) =>
             date_hint.ret = DateOfDigits(StripNonDigits(attrs["date"]))
        /\ ~AttrUsable(attrs) => date_hint = get_date_hint(NoAttrs, filename)
        /\ (~AttrUsable(attrs) /\ RunStarts(filename) = {} /\ ~WholeDateMatch(filename))
             => date_hint.ret = None

\* C6 witness: a month-13 date attribute was passed over and the filename's
\* 8-digit run gave the date.
C6_Witness ==
    /\ pc = "done"
    /\ attrs = WithDate(TIso20171301)
    /\ filename = T20170517 \o <<".", "n", "c">>
    /\ date_hint = Return([unit |-> "D", n |-> 17303])

(***************************************************************************)
(* Claims about normalize_timestamps (specification SpecTime)              *)
(***************************************************************************)
\* the classification of the raw time variable at hand
KindOf(tv) == detect_time_var_type(tv).ret.type

MidnightRelative(tv) ==
    /\ ~detect_time_var_type(tv).raised
    /\ KindOf(tv) \in {"hours-since-midnight", "seconds-since-midnight"}

\* v thousandths of an hour (or of a second) in whole seconds
WholeSeconds(v, hours) == IF hours THEN (v * 18) \div 5 ELSE v \div 1000

\* the number of backward steps at or before index i
Rollovers(vs, i) == Cardinality({k \in 2..i : vs[k] < vs[k - 1]})

NonDecreasing(vs) == \A i \in 1..(Len(vs) - 1) : vs[i] <= vs[i + 1]

\* C1: for a midnight-relative raw time sequence and a present date hint,
\* normalize_timestamps adds one whole day per backward step to every sample
\* at or after the step, and nothing to the samples before it.
C1_RolloverAddsDay ==
    (pc = "done" /\ MidnightRelative(time_var) /\ hint # None) =>
        /\ ~normal_time.raised
        /\ Len(normal_time.ret.values) = Len(time_var.values)
        /\ \A i \in 1..Len(time_var.values) :
             normal_time.ret.values[i].n =
                 hint.n * 86400
                 + WholeSeconds(time_var.values[i], KindOf(time_var) = "hours-since-midnight")
                 + 86400 * Rollovers(time_var.values, i)

\* C2: for a non-decreasing hours-since-midnight sequence and a present date
\* hint, sample i of the output is the date hint's midnight plus hour[i]*3600
\* seconds (whole seconds, as the output is of second precision), the output
\* has the input's length and order, and it is marked normalized.
C2_MonotonicHoursExact ==
    (/\ pc = "done"
     /\ ~detect_time_var_type(time_var).raised
     /\ KindOf(time_var) = "hours-since-midnight"
     /\ NonDecreasing(time_var.values)
     /\ hint # None) =>
        /\ ~normal_time.raised
        /\ Len(normal_time.ret.values) = Len(time_var.values)
        /\ \A i \in 1..Len(time_var.values) :
             normal_time.ret.values[i] =
                 [unit |-> "s", n |-> hint.n * 86400 + WholeSeconds(time_var.values[i], TRUE)]
        /\ normal_time.ret.attrs["normalized"] = TRUE
        /\ \A k \in DOMAIN time_var.attrs : normal_time.ret.attrs[k] = time_var.attrs[k]

\* C2 witness: hours [0.1, 0.5, 23.9] on 2017-05-17 came out as 00:06, 00:30
\* and 23:54 of that day.
C2_Witness ==
    /\ pc = "done"
    /\ time_var = TimeVar("float64", 1, <<100, 500, 23900>>, NoAttrs)
    /\ hint = [unit |-> "D", n |-> 17303]
    /\ ~normal_time.raised
    /\ normal_time.ret.values =
         <<[unit |-> "s", n |-> 17303 * 86400 + 360],
           [unit |-> "s", n |-> 17303 * 86400 + 1800],
           [unit |-> "s", n |-> 17303 * 86400 + 86040]>>

\* C4: for a numeric time sequence whose units read "<hours|seconds> since
\* <timestamp>" with a well-formed timestamp (date; date, blank, time; date,
\* "T", time), the output at every index is the full reference instant the
\* units name, time of day included, plus value*3600 seconds (hours) or value
\* seconds (seconds).
C4_OffsetFromFullReference ==
    \A w \in {THours, TSeconds}, ts \in ReferenceTexts :
        (/\ pc = "done"
         /\ time_var.dtype \in {"float64", "int64"}
         /\ time_var.attrs = WithUnits(WellFormedSince(w, ts))) =>
            /\ ~normal_time.raised
            /\ Len(normal_time.ret.values) = Len(time_var.values)
            /\ \A i \in 1..Len(time_var.values) :
                 normal_time.ret.values[i].n =
                     AsSeconds(NpDatetime64(ts)).n
                     + WholeSeconds(time_var.values[i], w = THours)

(***************************************************************************)
(* Claims about granule construction (specification SpecGranule)           *)
(***************************************************************************)
\* the constructor reached the call of normalize_timestamps (line 59)
NormalizeCalled ==
    \/ pc \in {"constructed", "closed"}
    \/ pc = "failed" /\ granule.failed_at = "normalize"

OffsetOrAbsolute(tv) ==
    \/ IsDatetimeDtype(tv.dtype)
    \/ /\ ~detect_time_var_type(tv).raised
       /\ KindOf(tv) \in {"hours-since", "seconds-since"}

NumCol == Len(granule.ds.ref)
NumRow == Len(granule.ds.ref[1])

\* the grid's dimensions match the per-sample vectors and the range vector
ShapesMatch ==
    /\ Len(granule.normal_time.values) = NumCol
    /\ \A f \in {"lat", "lon", "alt", "roll", "pitch", "head"} : Len(granule.ds[f]) = NumCol
    /\ Len(granule.ds.range) = NumRow

\* the along-track sample and the range bin of the flattened sample k
ColOf(k) == ((k - 1) \div NumRow) + 1
RowOf(k) == ((k - 1) % NumRow) + 1

DownOf(c) ==
    down_vector(ToRadians(granule.ds.roll[c]), ToRadians(granule.ds.pitch[c]),
                ToRadians(granule.ds.head[c]))

\* the corrected altitude of the flattened sample k: aircraft altitude + range*z
CorrectedAlt(k) == granule.ds.alt[ColOf(k)] + granule.ds.range[RowOf(k)] * DownOf(ColOf(k)).z

Retained ==
    {k \in 1..(NumCol * NumRow) :
        granule.ds.ref[ColOf(k)][RowOf(k)].kind = "num" /\ CorrectedAlt(k) > 0}

\* C7: the returned PointCloud holds exactly the flattened samples with
\* finite reflectivity and strictly positive corrected altitude, each once
\* and with its own lat, lon, alt, reflectivity and time; the five sequences
\* have one length and one index names one source sample in all of them.
C7_ExactlyValidSamples ==
    (pc = "done" /\ ShapesMatch) =>
        /\ ~cloud.raised
        /\ LET out == cloud.ret
               n == Len(out.src)
           IN  /\ Len(out.lat) = n /\ Len(out.lon) = n /\ Len(out.alt) = n
               /\ Len(out.ref) = n /\ Len(out.time) = n
               /\ n = Cardinality(Retained)
               /\ {out.src[j] : j \in 1..n} = Retained
               /\ \A j \in 1..n :
                    LET k == out.src[j]
                        c == ColOf(k)
                        r == RowOf(k)
                    IN  /\ out.ref[j] = granule.ds.ref[c][r]
                        /\ out.alt[j] = CorrectedAlt(k)
                        /\ out.time[j] = granule.normal_time.values[c]
                        /\ out.lat[j] = granule.ds.lat[c]
                                        - (DownOf(c).y * granule.ds.range[r]) \div 111
                        /\ out.lon[j] = granule.ds.lon[c]
                                        - (DownOf(c).x * granule.ds.range[r]
                                           * SecLat(granule.ds.lat[c])) \div 111

\* C7 witness: a 2 by 2 grid with one NaN cell and positive altitudes gave a
\* PointCloud of 3 points.
C7_Witness ==
    /\ pc = "done"
    /\ ShapesMatch
    /\ NumCol = 2 /\ NumRow = 2
    /\ Cardinality({k \in 1..4 : granule.ds.ref[ColOf(k)][RowOf(k)].kind = "nan"}) = 1
    /\ \A k \in 1..4 : granule.ds.ref[ColOf(k)][RowOf(k)].kind # "inf"
    /\ \A k \in 1..4 : CorrectedAlt(k) > 0
    /\ ~cloud.raised
    /\ Len(cloud.ret.time) = 3

\* C8: whatever the order of the along-track samples, the time sequence of
\* the returned PointCloud is non-decreasing.
C8_TimeNonDecreasing ==
    (pc = "done" /\ ~cloud.raised) =>
        \A j \in 1..(Len(cloud.ret.time) - 1) :
            cloud.ret.time[j].n <= cloud.ret.time[j + 1].n

\* C8 witness: a granule whose normalized time decreases, with a sample
\* dropped by the filter, gave a PointCloud of at least two distinct times.
C8_Witness ==
    /\ pc = "done"
    /\ ~cloud.raised
    /\ ShapesMatch
    /\ NumCol = 2
    /\ granule.normal_time.values[1].n > granule.normal_time.values[2].n
    /\ Len(cloud.ret.time) < NumCol * NumRow
    /\ Len(cloud.ret.time) >= 2
    /\ cloud.ret.time[1].n < cloud.ret.time[Len(cloud.ret.time)].n

\* C9: the sort is stable: points of equal time keep the relative order of
\* their flattened source samples.
C9_SortIsStable ==
    (pc = "done" /\ ~cloud.raised) =>
        \A a, b \in 1..Len(cloud.ret.src) :
            (a < b /\ cloud.ret.time[a] = cloud.ret.time[b])
                => cloud.ret.src[a] < cloud.ret.src[b]

\* C10: when the grid's dimensions do not match the lengths of the
\* per-sample vectors or of the range vector, convert raises and returns no
\* PointCloud.
C10_ShapeMismatchRaises ==
    (pc = "done" /\ ~ShapesMatch) => cloud.raised

(***************************************************************************)
(* Claims about the release of the dataset (specification SpecGranule)     *)
(***************************************************************************)
\* a dataset has been opened and not closed since
DatasetOpen == pc # "new" /\ granule.ds.open

\* the caller holds a CampaignGranule to call close() on: the constructor
\* returned one
ObjectReachable == pc # "new" /\ granule.state \in {"constructed", "closed"}

\* C11: the dataset opened by CampaignGranule is released on every exit
\* path: whenever it is open - also after a construction that failed in a
\* preprocessor or in the time normalization - the granule is still
\* reachable, so that close can be called on it.
C11_OpenedDatasetReleasable ==
    DatasetOpen => ObjectReachable

(***************************************************************************)
(* Claims about detect_time_var_type (specification SpecTime)              *)
(***************************************************************************)
\* some value of the raw sequence is smaller than its predecessor
StepsBackward(vs) == \E i \in 2..Len(vs) : vs[i] < vs[i - 1]

\* C12: for a numeric (one-dimensional) raw time sequence the classification returned by
\* detect_time_var_type has wrapped = TRUE exactly when some value is smaller
\* than its predecessor, whatever type it is given; for a datetime64 sequence
\* wrapped is FALSE.
C12_WrappedIffStepsBackward ==
    (pc = "done" /\ time_var.ndim = 1 /\ ~detect_time_var_type(time_var).raised) =>
        /\ DtypeKind(time_var.dtype) \in {"f", "i"} =>
             (detect_time_var_type(time_var).ret.wrapped
                 <=> StepsBackward(time_var.values))
        /\ IsDatetimeDtype(time_var.dtype) =>
             ~detect_time_var_type(time_var).ret.wrapped

====
